---------------------------- MODULE Spec2Model ----------------------------
(***************************************************************************)
(* Model of the interactive terminal prompts of wkfl                       *)
(* (src/wkfl/src/prompts.rs): the modal single-line editor (PromptState,   *)
(* handle_key), the selection list (SelectionState, select_handle_key,     *)
(* filter_options), the boolean toggle, and the read-dispatch-render loops *)
(* of basic_prompt, select_prompt and boolean_prompt.                      *)
(*                                                                         *)
(* Representation.                                                         *)
(*  - A char is a one-name string; a Rust String is a sequence of chars.   *)
(*    String::len() and char_indices() count BYTES (UTF-8), while          *)
(*    Iterator::skip counts chars: both are kept.                          *)
(*  - A usize / u16 is an integer; a NEGATIVE integer v stands for the     *)
(*    wrapped value 2^w + v (two's complement), so usize::MAX is -1.       *)
(*    With overflow checks (debug profile) an overflowing operation        *)
(*    panics; without them (release profile) it wraps.  `build` is the     *)
(*    profile the binary was compiled with.                                *)
(***************************************************************************)
EXTENDS Integers, Sequences, FiniteSets, TLC

VARIABLES
    build,        \* "debug" (overflow checks) or "release" (wrapping)
    call,         \* entry point being run: "none", "basic", "select", "boolean", or a
                  \* function run on its own: "word", "nav", "filter", "keys"
    status,       \* "idle", "running", "returned", "failed", "panicked"
    result,       \* value returned by the call, or the error, or NoResult
    raw_mode,     \* the terminal's raw mode (process-wide)
    cursor,       \* PromptState.cursor
    line,         \* PromptState.line
    mode,         \* PromptState.mode
    selected,     \* SelectionState.selected
    first_item,   \* SelectionState.first_item
    items_shown,  \* SelectionState.items_shown
    max_index,    \* SelectionState.max_index
    has_options,  \* SelectionState.has_options
    options,      \* the options slice passed to select_prompt
    toggle,       \* boolean_prompt's `state`
    screen,       \* what the last render drew: the option rows and the highlighted row
    refiltered,   \* TRUE once the key loop has re-filtered (update_max_index ran)
    loop_exit,    \* how the key loop was left: "none", "break", "pattern" (the
                  \* `while let Event::Key` pattern did not match), "error", "panic"
    scenario,     \* history: the PromptState a key scenario started from and the
                  \* keys handled since (NoScenario outside the key scenarios);
                  \* for a TodoFile, the last method call and the sections before it
    sections      \* TodoFile.sections

vars == <<build, call, status, result, raw_mode, cursor, line, mode, selected,
          first_item, items_shown, max_index, has_options, options, toggle,
          screen, refiltered, loop_exit, scenario, sections>>

---------------------------------------------------------------------------
(* Bounds of the model *)

\* longest text (in chars) that the environment types into basic_prompt
MaxLen == 3

\* longest filter text (in chars) that the environment types into select_prompt
MaxFilterLen == 2

\* longest option list handed to select_prompt
MaxOptions == 12

\* how far past the end of the text (in bytes) an unchecked cursor is followed
MaxOvershoot == 2

\* longest filter text (in chars) given to filter_options on its own
MaxFilterText == 3

\* most keys of one key scenario
MaxKeys == 4

---------------------------------------------------------------------------
(* Characters and Rust strings *)

\* Unicode scalar value of each char the model uses
CodePoint ==
    [c \in {" ", "-", "a", "b", "c", "d", "e", "f", "g", "h", "l", "m", "n", "o", "p",
            "r", "t", "w", "x", "z", "e_acute"} |->
        CASE c = " " -> 32
          [] c = "-" -> 45
          [] c = "a" -> 97
          [] c = "b" -> 98
          [] c = "c" -> 99
          [] c = "d" -> 100
          [] c = "e" -> 101
          [] c = "f" -> 102
          [] c = "g" -> 103
          [] c = "h" -> 104
          [] c = "l" -> 108
          [] c = "m" -> 109
          [] c = "n" -> 110
          [] c = "o" -> 111
          [] c = "p" -> 112
          [] c = "r" -> 114
          [] c = "t" -> 116
          [] c = "w" -> 119
          [] c = "x" -> 120
          [] c = "z" -> 122
          [] c = "e_acute" -> 233]

\* char::len_utf8
Width(c) ==
    LET cp == CodePoint[c]
    IN  IF cp < 128 THEN 1 ELSE IF cp < 2048 THEN 2 ELSE IF cp < 65536 THEN 3 ELSE 4

\* char::is_alphanumeric
IsAlphanumeric(c) ==
    LET cp == CodePoint[c]
    IN  \/ cp \in 48..57
        \/ cp \in 65..90
        \/ cp \in 97..122
        \/ cp = 233

\* char::is_whitespace, as str::split_whitespace uses it
IsWhitespace(c) == CodePoint[c] = 32

RECURSIVE ByteLen(_)
\* String::len: the length in bytes
ByteLen(s) == IF s = <<>> THEN 0 ELSE Width(Head(s)) + ByteLen(Tail(s))

\* byte offset of the k-th char (k from 1), as char_indices yields it
Offset(s, k) == ByteLen(SubSeq(s, 1, k - 1))

\* str::is_char_boundary
IsCharBoundary(s, i) == \E k \in 1..(Len(s) + 1) : Offset(s, k) = i

\* the 1-based position of the char that starts at byte offset i (i a boundary)
CharAt(s, i) == CHOOSE k \in 1..(Len(s) + 1) : Offset(s, k) = i

Min(S) == CHOOSE x \in S : \A y \in S : x <= y
Max(S) == CHOOSE x \in S : \A y \in S : x >= y

---------------------------------------------------------------------------
(* usize arithmetic *)

OverflowChecks == build = "debug"

\* unsigned a < b on the two's-complement representation
ULt(a, b) ==
    IF (a >= 0) = (b >= 0) THEN a < b ELSE a >= 0

\* a - b on usize / u16: panics under overflow checks when b > a, else wraps
USub(a, b) == [ok |-> ~(OverflowChecks /\ ULt(a, b)), v |-> a - b]

Ok(v) == [ok |-> TRUE, v |-> v]

\* the positions (from 1) of the chars of s that are / are not alphanumeric,
\* are whitespace, are the char c
AlnumAt(s) == {k \in 1..Len(s) : IsAlphanumeric(s[k])}
NonAlnumAt(s) == {k \in 1..Len(s) : ~IsAlphanumeric(s[k])}
WhitespaceAt(s) == {k \in 1..Len(s) : IsWhitespace(s[k])}
CharsAt(s, c) == {k \in 1..Len(s) : s[k] = c}

\* the first of the positions `hits` that is >= from, or 0 when there is none
\* (Iterator::find, and where Iterator::skip_while stops, walking forward)
FirstFrom(hits, from) ==
    LET later == {k \in hits : k >= from}
    IN  IF later = {} THEN 0 ELSE Min(later)

\* the last of the positions `hits` that is <= top, or 0 when there is none
\* (the same, walking a reversed iterator)
LastUpTo(hits, top) ==
    LET earlier == {k \in hits : k <= top}
    IN  IF earlier = {} THEN 0 ELSE Max(earlier)

---------------------------------------------------------------------------
(* PromptMode, Operation, OpAdjust *)

OpAdjust == {"Empty", "Around", "Inner"}
Change(adj) == [kind |-> "Change", adj |-> adj]
Delete(adj) == [kind |-> "Delete", adj |-> adj]
Operation == {Change(adj) : adj \in OpAdjust} \cup {Delete(adj) : adj \in OpAdjust}
Insert == [kind |-> "Insert"]
Normal == [kind |-> "Normal"]
OperatorPending(op) == [kind |-> "OperatorPending", op |-> op]
PromptMode == {Insert, Normal} \cup {OperatorPending(op) : op \in Operation}

---------------------------------------------------------------------------
(* PromptState: a record [cursor, line, mode, panicked]; panicked is set   *)
(* when an operation panics, and every later step of the handler is then   *)
(* skipped (the process is unwinding).                                     *)

PromptState_new == [cursor |-> 0, line |-> <<>>, mode |-> Insert, panicked |-> FALSE]

Panic(st) == [st EXCEPT !.panicked = TRUE]

\* s2 is what the next step makes of s1: it is skipped when s1 has panicked
Then(s1, s2) == IF s1.panicked THEN s1 ELSE s2

max_cursor(st) ==
    IF st.mode = Insert
    THEN Ok(ByteLen(st.line))
    \* -1 so you can only go to the last character and not past
    ELSE USub(ByteLen(st.line), 1)

insert_mode(st) == [st EXCEPT !.mode = Insert]

normal_mode(st) == [st EXCEPT !.mode = Normal]

operator_pending_mode(st, op) == [st EXCEPT !.mode = OperatorPending(op)]

move_to_start(st) == [st EXCEPT !.cursor = 0]

move_to_end(st) ==
    LET m == max_cursor(st)
    IN  IF m.ok THEN [st EXCEPT !.cursor = m.v] ELSE Panic(st)

move_left(st) ==
    IF ULt(0, st.cursor) THEN [st EXCEPT !.cursor = @ - 1] ELSE st

move_right(st) ==
    LET m == max_cursor(st)
    IN  IF ~m.ok THEN Panic(st)
        ELSE IF ULt(st.cursor, m.v) THEN [st EXCEPT !.cursor = @ + 1] ELSE st

get_current_word_end(st) ==
    LET s     == st.line
        n     == st.cursor + 1
        from  == IF n < 0 THEN Len(s) + 1 ELSE n + 1
        \* Get into a word
        into  == FirstFrom(AlnumAt(s), from)
        \* Find when we are back out of the word
        out   == IF into = 0 THEN 0 ELSE FirstFrom(NonAlnumAt(s), into)
    IN  IF out # 0 THEN USub(Offset(s, out), 1) ELSE USub(ByteLen(s), 1)

get_current_word_start(st) ==
    LET s     == st.line
        n     == USub(ByteLen(s), st.cursor)
        top   == IF n.v < 0 \/ n.v >= Len(s) THEN 0 ELSE Len(s) - n.v
        \* Get into a word
        into  == LastUpTo(AlnumAt(s), top)
        \* Find when we are back out of the word
        out   == IF into = 0 THEN 0 ELSE LastUpTo(NonAlnumAt(s), into)
    IN  IF ~n.ok THEN n
        ELSE IF out # 0 THEN Ok(Offset(s, out) + 1) ELSE Ok(0)

\* get_next_word_start that gives the cursor back when no word follows
get_next_word_start_stay(st) ==
    LET s     == st.line
        from  == IF st.cursor < 0 THEN Len(s) + 1 ELSE st.cursor + 1
        outof == FirstFrom(NonAlnumAt(s), from)
        into  == IF outof = 0 THEN 0 ELSE FirstFrom(AlnumAt(s), outof)
    IN  IF into # 0 THEN Ok(Offset(s, into)) ELSE Ok(st.cursor)

get_next_word_start(st) ==
    LET s     == st.line
        from  == IF st.cursor < 0 THEN Len(s) + 1 ELSE st.cursor + 1
        \* Get out of a word
        outof == FirstFrom(NonAlnumAt(s), from)
        \* Find when we are back in a word
        into  == IF outof = 0 THEN 0 ELSE FirstFrom(AlnumAt(s), outof)
    IN  IF into # 0 THEN Ok(Offset(s, into)) ELSE USub(ByteLen(s), 1)

move_to_current_word_end(st) ==
    LET m == max_cursor(st)
        e == get_current_word_end(st)
    IN  IF ~m.ok THEN Panic(st)
        ELSE IF ~ULt(st.cursor, m.v) THEN st
        ELSE IF ~e.ok THEN Panic(st)
        ELSE [st EXCEPT !.cursor = e.v]

move_to_current_word_start(st) ==
    LET b == get_current_word_start(st)
    IN  IF ~ULt(0, st.cursor) THEN st
        ELSE IF ~b.ok THEN Panic(st)
        ELSE [st EXCEPT !.cursor = b.v]

move_to_next_word_start(st) ==
    LET m == max_cursor(st)
        w == get_next_word_start(st)
    IN  IF ~m.ok THEN Panic(st)
        ELSE IF ~ULt(st.cursor, m.v) THEN st
        ELSE IF ~w.ok THEN Panic(st)
        ELSE [st EXCEPT !.cursor = w.v]

\* String::replace_range(start..end, ""): panics unless start <= end <= len
\* and both lie on char boundaries
delete_range(st, start, end) ==
    LET s == st.line
    IN  IF /\ 0 <= start /\ start <= end
           /\ IsCharBoundary(s, start) /\ IsCharBoundary(s, end)
        THEN [st EXCEPT !.line = SubSeq(s, 1, CharAt(s, start) - 1)
                                   \o SubSeq(s, CharAt(s, end), Len(s)),
                        !.cursor = start]
        ELSE Panic(st)

\* delete_word that always ends at the current word's end
delete_word_to_word_end(st, adjustment) ==
    LET start == IF adjustment = "Empty" THEN Ok(st.cursor)
                 ELSE get_current_word_start(st)
        we    == get_current_word_end(st)
    IN  IF ~start.ok \/ ~we.ok THEN Panic(st)
        ELSE delete_range(st, start.v, we.v + 1)

delete_word(st, adjustment) ==
    LET start == IF adjustment = "Empty" THEN Ok(st.cursor)
                 ELSE get_current_word_start(st)
        we    == get_current_word_end(st)
        ws    == get_next_word_start(st)
        last  == USub(ByteLen(st.line), 1)
        wsm1  == USub(ws.v, 1)
        end   == IF adjustment = "Inner" THEN we
                 ELSE IF ~ws.ok THEN ws
                 ELSE IF ~last.ok THEN last
                 ELSE IF ws.v = last.v THEN ws
                 ELSE wsm1
    IN  IF ~start.ok \/ ~end.ok THEN Panic(st)
        ELSE delete_range(st, start.v, end.v + 1)

\* String::remove(idx): panics unless a char starts at byte idx
delete_current_char(st) ==
    LET s == st.line
        i == st.cursor
    IN  IF i >= 0 /\ i < ByteLen(s) /\ IsCharBoundary(s, i)
        THEN [st EXCEPT !.line = SubSeq(s, 1, CharAt(s, i) - 1)
                                   \o SubSeq(s, CharAt(s, i) + 1, Len(s))]
        ELSE Panic(st)

\* delete_all without `self.cursor = 0`
delete_all_keep_cursor(st) == [st EXCEPT !.line = <<>>]

delete_all(st) == [st EXCEPT !.line = <<>>, !.cursor = 0]

\* String::insert(idx, c) panics unless idx is a char boundary; push appends
insert_char(st, c) ==
    LET s == st.line
        m == max_cursor(st)
    IN  IF ~m.ok THEN Panic(st)
        ELSE IF ULt(st.cursor, m.v)
        THEN IF st.cursor >= 0 /\ IsCharBoundary(s, st.cursor)
             THEN [st EXCEPT !.line = SubSeq(s, 1, CharAt(s, st.cursor) - 1)
                                        \o <<c>>
                                        \o SubSeq(s, CharAt(s, st.cursor), Len(s))]
             ELSE Panic(st)
        ELSE [st EXCEPT !.line = Append(s, c)]

---------------------------------------------------------------------------
(* Key events: [code, ch, mods].  code is "Char" (with ch the char),       *)
(* "Enter", "Esc", "Backspace" or "Tab"; mods is the exact modifier set.   *)

Key(code, ch, mods) == [code |-> code, ch |-> ch, mods |-> mods]

\* what a handler hands back: Ok(false), Ok(true), Err("ctrl-c sent"), or a panic
Outcome(st, out) == [st |-> st, out |-> IF st.panicked THEN "panic" ELSE out]

\* (PromptMode::Insert, KeyCode::Backspace)
insert_backspace(st) ==
    IF ULt(st.cursor, max_cursor(st).v)
    THEN IF st.cursor # 0 THEN Then(move_left(st), delete_current_char(move_left(st))) ELSE st
    ELSE IF st.line # <<>>
         THEN move_left([st EXCEPT !.line = SubSeq(@, 1, Len(@) - 1)])
         ELSE st

\* (PromptMode::Normal, KeyCode::Char(c))
normal_char(st, c) ==
    CASE c = "i" -> insert_mode(st)
      [] c = "I" -> move_to_start(insert_mode(st))
      [] c = "a" -> move_right(insert_mode(st))
      [] c = "A" -> move_to_end(insert_mode(st))
      [] c = "x" -> delete_current_char(st)
      [] c = "X" -> Then(move_left(st), delete_current_char(move_left(st)))
      [] c = "h" -> move_left(st)
      [] c = "l" -> move_right(st)
      [] c = "c" -> operator_pending_mode(st, Change("Empty"))
      [] c = "d" -> operator_pending_mode(st, Delete("Empty"))
      [] c = "e" -> move_to_current_word_end(st)
      [] c = "b" -> move_to_current_word_start(st)
      [] c = "w" -> move_to_next_word_start(st)
      [] OTHER -> st

\* every applied operator leaving Normal mode
after_operation_always_normal(st, operation) == normal_mode(st)

\* the mode an applied operator leaves: Change -> Insert, Delete -> Normal
after_operation(st, operation) ==
    IF operation.kind = "Change" THEN insert_mode(st) ELSE normal_mode(st)

\* operator + 'e' that leaves the word's last char (end, not end + 1)
operator_e_exclusive(st) ==
    LET end == get_current_word_end(st)
    IN  IF ~end.ok THEN Panic(st) ELSE delete_range(st, st.cursor, end.v)

\* operator + 'e' with no qualifier
operator_e(st) ==
    LET end == get_current_word_end(st)
    IN  IF ~end.ok THEN Panic(st) ELSE delete_range(st, st.cursor, end.v + 1)

\* operator + 'b' with no qualifier
operator_b(st) ==
    LET start == get_current_word_start(st)
    IN  IF ~start.ok THEN Panic(st) ELSE delete_range(st, start.v, st.cursor)

\* (PromptMode::OperatorPending(operation), KeyCode::Char(c))
operator_pending_char(st, operation, c) ==
    CASE operation.adj = "Empty" /\ c = "i" ->
            operator_pending_mode(st, [operation EXCEPT !.adj = "Inner"])
      [] operation.adj = "Empty" /\ c = "a" ->
            operator_pending_mode(st, [operation EXCEPT !.adj = "Around"])
      [] c = "w" ->
            Then(delete_word(st, operation.adj),
                 after_operation(delete_word(st, operation.adj), operation))
      [] operation.adj = "Empty" /\ c = "e" ->
            Then(operator_e(st), after_operation(operator_e(st), operation))
      [] operation.adj = "Empty" /\ c = "b" ->
            Then(operator_b(st), after_operation(operator_b(st), operation))
      [] operation = Change("Empty") /\ c = "c" -> insert_mode(delete_all(st))
      [] operation = Delete("Empty") /\ c = "d" -> normal_mode(delete_all(st))
      [] OTHER -> normal_mode(st)

\* handle_key without its ctrl-c arm
handle_key_no_ctrl_c(st, key) ==
    IF key.mods \notin {"NONE", "SHIFT"} THEN Outcome(st, "continue")
    ELSE IF key.code = "Enter" THEN Outcome(st, "done")
    ELSE IF st.mode = Insert /\ key.code = "Esc"
         THEN Outcome(move_left(normal_mode(st)), "continue")
    ELSE IF st.mode = Normal /\ key.code = "Backspace"
         THEN Outcome(move_left(st), "continue")
    ELSE IF st.mode = Insert /\ key.code = "Backspace"
         THEN Outcome(insert_backspace(st), "continue")
    ELSE IF st.mode = Insert /\ key.code = "Char"
         THEN Outcome(Then(insert_char(st, key.ch), move_right(insert_char(st, key.ch))), "continue")
    ELSE IF st.mode = Normal /\ key.code = "Char"
         THEN Outcome(normal_char(st, key.ch), "continue")
    ELSE IF st.mode.kind = "OperatorPending" /\ key.code = "Char"
         THEN Outcome(operator_pending_char(st, st.mode.op, key.ch), "continue")
    ELSE Outcome(st, "continue")

handle_key(st, key) ==
    IF key.code = "Char" /\ key.ch = "c" /\ key.mods = "CONTROL"
    THEN Outcome(st, "interrupt")
    ELSE IF key.mods \notin {"NONE", "SHIFT"} THEN Outcome(st, "continue")
    ELSE IF key.code = "Enter" THEN Outcome(st, "done")
    ELSE IF st.mode = Insert /\ key.code = "Esc"
         THEN Outcome(move_left(normal_mode(st)), "continue")
    ELSE IF st.mode = Normal /\ key.code = "Backspace"
         THEN Outcome(move_left(st), "continue")
    ELSE IF st.mode = Insert /\ key.code = "Backspace"
         THEN Outcome(insert_backspace(st), "continue")
    ELSE IF st.mode = Insert /\ key.code = "Char"
         THEN Outcome(Then(insert_char(st, key.ch), move_right(insert_char(st, key.ch))), "continue")
    ELSE IF st.mode = Normal /\ key.code = "Char"
         THEN Outcome(normal_char(st, key.ch), "continue")
    ELSE IF st.mode.kind = "OperatorPending" /\ key.code = "Char"
         THEN Outcome(operator_pending_char(st, st.mode.op, key.ch), "continue")
    ELSE Outcome(st, "continue")

---------------------------------------------------------------------------
(* SelectionState: a record [selected, first_item, items_shown, max_index, *)
(* has_options, panicked] (its prompt_state is kept beside it).  The       *)
(* fields are u16.                                                         *)

MAX_OPTIONS_SHOWN == 10

SelectionState_new(shown, max) ==
    [selected |-> 0, first_item |-> 0, items_shown |-> shown, max_index |-> max,
     has_options |-> TRUE, panicked |-> FALSE]

\* update_max_index without `self.selected = self.max_index`
update_max_index_no_clamp(sel, max, has) ==
    LET s2 == [sel EXCEPT !.has_options = has, !.max_index = max]
    IN  IF ULt(s2.max_index, s2.first_item + s2.items_shown)
        THEN IF ULt(s2.max_index, s2.items_shown + 1)
             THEN [s2 EXCEPT !.first_item = 0]
             ELSE [s2 EXCEPT !.first_item = s2.max_index - s2.items_shown + 1]
        ELSE s2

\* update_max_index that never moves the viewport
update_max_index_keep_first(sel, max, has) ==
    LET s1 == [sel EXCEPT !.has_options = has, !.max_index = max]
    IN  IF ULt(s1.max_index, s1.selected)
        THEN [s1 EXCEPT !.selected = s1.max_index] ELSE s1

update_max_index(sel, max, has) ==
    LET s1 == [sel EXCEPT !.has_options = has, !.max_index = max]
        s2 == IF ULt(s1.max_index, s1.selected)
              THEN [s1 EXCEPT !.selected = s1.max_index] ELSE s1
    IN  IF ULt(s2.max_index, s2.first_item + s2.items_shown)
        \* + 1 is to account for 0 based index of max index
        THEN IF ULt(s2.max_index, s2.items_shown + 1)
             THEN [s2 EXCEPT !.first_item = 0]
             ELSE [s2 EXCEPT !.first_item = s2.max_index - s2.items_shown + 1]
        ELSE s2

\* next_item without `self.first_item += 1`
next_item_no_scroll(sel) ==
    IF ULt(sel.selected, sel.max_index) THEN [sel EXCEPT !.selected = @ + 1] ELSE sel

next_item(sel) ==
    LET s1  == [sel EXCEPT !.selected = @ + 1]
        \* - 2 is so the next item is shown and 0 based indexing
        bot == USub(s1.first_item + s1.items_shown, 2)
    IN  IF ~ULt(sel.selected, sel.max_index) THEN sel
        ELSE IF ~bot.ok THEN [s1 EXCEPT !.panicked = TRUE]
        ELSE IF ULt(bot.v, s1.selected) /\ ULt(s1.first_item, s1.max_index)
        THEN [s1 EXCEPT !.first_item = @ + 1]
        ELSE s1

previous_item(sel) ==
    LET s1 == [sel EXCEPT !.selected = @ - 1]
    IN  IF ~ULt(0, sel.selected) THEN sel
        \* + 1 is so the previous item is shown
        ELSE IF ULt(s1.selected, s1.first_item + 1) /\ ULt(0, s1.first_item)
        THEN [s1 EXCEPT !.first_item = @ - 1]
        ELSE s1

\* select_handle_key that keeps Esc from the editor, so that the filter field
\* never leaves Insert mode
select_handle_key_insert_only(sel, st, key) ==
    LET nav(s) == [sel |-> s, st |-> st,
                   out |-> IF s.panicked THEN "panic" ELSE "continue"]
        fallthrough(hk) == [sel |-> sel, st |-> hk.st, out |-> hk.out]
    IN  IF key.code = "Enter" /\ key.mods = "NONE"
        THEN [sel |-> sel, st |-> st,
              out |-> IF sel.has_options THEN "done" ELSE "continue"]
        ELSE IF key.code = "Esc" THEN [sel |-> sel, st |-> st, out |-> "continue"]
        ELSE IF st.mode = Insert /\ key = Key("Char", "n", "CONTROL") THEN nav(next_item(sel))
        ELSE IF st.mode = Insert /\ key = Key("Char", "p", "CONTROL") THEN nav(previous_item(sel))
        ELSE fallthrough(handle_key(st, key))

\* select_handle_key on (SelectionState, its PromptState): [sel, st, out]
select_handle_key(sel, st, key) ==
    LET nav(s) == [sel |-> s, st |-> st,
                   out |-> IF s.panicked THEN "panic" ELSE "continue"]
        fallthrough(hk) == [sel |-> sel, st |-> hk.st, out |-> hk.out]
    IN  IF key.code = "Enter" /\ key.mods = "NONE"
        THEN [sel |-> sel, st |-> st,
              out |-> IF sel.has_options THEN "done" ELSE "continue"]
        ELSE IF st.mode = Normal /\ key = Key("Char", "j", "NONE") THEN nav(next_item(sel))
        ELSE IF st.mode = Normal /\ key = Key("Char", "k", "NONE") THEN nav(previous_item(sel))
        ELSE IF st.mode = Insert /\ key = Key("Char", "n", "CONTROL") THEN nav(next_item(sel))
        ELSE IF st.mode = Insert /\ key = Key("Char", "p", "CONTROL") THEN nav(previous_item(sel))
        ELSE fallthrough(handle_key(st, key))

---------------------------------------------------------------------------
(* filter_options and the fuzzy matcher *)

RECURSIVE split_whitespace(_)
\* str::split_whitespace: the maximal runs of non-whitespace chars
split_whitespace(s) ==
    IF s = <<>> THEN <<>>
    ELSE IF IsWhitespace(Head(s)) THEN split_whitespace(Tail(s))
    ELSE LET stop == FirstFrom(WhitespaceAt(s), 1)
             n    == IF stop = 0 THEN Len(s) ELSE stop - 1
         IN  <<SubSeq(s, 1, n)>> \o split_whitespace(SubSeq(s, n + 1, Len(s)))

RECURSIVE match_positions(_, _, _)
\* the leftmost in-order occurrence of pattern in choice from position `from`:
\* the positions matched, or <<0>> when pattern is no subsequence of choice
match_positions(choice, pattern, from) ==
    IF pattern = <<>> THEN <<>>
    ELSE LET k == FirstFrom(CharsAt(choice, Head(pattern)), from)
         IN  IF k = 0 THEN <<0>>
             ELSE LET rest == match_positions(choice, Tail(pattern), k + 1)
                  IN  IF rest # <<>> /\ rest[1] = 0 THEN <<0>> ELSE <<k>> \o rest

\* fuzzy_match that asks only that each char of pattern occurs in choice
fuzzy_match_any_order(choice, pattern) ==
    LET some == \A k \in 1..Len(pattern) : CharsAt(choice, pattern[k]) # {}
    IN  [some |-> some, score |-> IF some THEN 16 * Len(pattern) ELSE 0]

\* SkimMatcherV2::fuzzy_match(choice, pattern): None unless pattern is an in-order
\* subsequence of choice; the score rewards each matched char and a match at the
\* head, and charges the chars skipped between the first and the last match
fuzzy_match(choice, pattern) ==
    LET pos  == match_positions(choice, pattern, 1)
        some == pos = <<>> \/ pos[1] # 0
        gaps == IF pos = <<>> THEN 0 ELSE (pos[Len(pos)] - pos[1] + 1) - Len(pos)
        head == IF pos # <<>> /\ pos[1] = 1 THEN 8 ELSE 0
    IN  [some |-> some, score |-> IF some THEN 16 * Len(pos) + head - gaps ELSE 0]

RECURSIVE calculate_match_score_any_term(_, _)
\* calculate_match_score that skips a term without a match instead of `return None`
calculate_match_score_any_term(option, filter_terms) ==
    IF filter_terms = <<>> THEN [some |-> TRUE, score |-> 0]
    ELSE LET m    == fuzzy_match(option, Head(filter_terms))
             rest == calculate_match_score_any_term(option, Tail(filter_terms))
         IN  IF m.some \/ Len(filter_terms) > 1
             THEN [some |-> TRUE, score |-> m.score + rest.score]
             ELSE [some |-> FALSE, score |-> 0]

RECURSIVE calculate_match_score(_, _)
calculate_match_score(option, filter_terms) ==
    IF filter_terms = <<>> THEN [some |-> TRUE, score |-> 0]
    ELSE LET m    == fuzzy_match(option, Head(filter_terms))
             rest == calculate_match_score(option, Tail(filter_terms))
         IN  IF m.some /\ rest.some
             THEN [some |-> TRUE, score |-> m.score + rest.score]
             ELSE [some |-> FALSE, score |-> 0]

RECURSIVE StrLess(_, _)
\* String's Ord: a < b, byte-wise (for UTF-8, code point by code point)
StrLess(a, b) ==
    IF b = <<>> THEN FALSE
    ELSE IF a = <<>> THEN TRUE
    ELSE IF CodePoint[Head(a)] # CodePoint[Head(b)] THEN CodePoint[Head(a)] < CodePoint[Head(b)]
    ELSE StrLess(Tail(a), Tail(b))

\* the order Vec<(i64, &String)>::sort puts the (-score, option) pairs in
PairLess(p, q) == p[1] < q[1] \/ (p[1] = q[1] /\ StrLess(p[2], q[2]))

RECURSIVE InsertPair(_, _)
\* p put into the sorted sequence s, behind every pair that is not greater
InsertPair(s, p) ==
    IF s = <<>> THEN <<p>>
    ELSE IF PairLess(p, Head(s)) THEN <<p>> \o s
    ELSE <<Head(s)>> \o InsertPair(Tail(s), p)

RECURSIVE SortPairs(_)
\* the stable sort of a sequence of (-score, option) pairs
SortPairs(m) ==
    IF m = <<>> THEN <<>>
    ELSE InsertPair(SortPairs(SubSeq(m, 1, Len(m) - 1)), m[Len(m)])

RECURSIVE matched_pairs(_, _)
\* the filter_map of filter_options: (-score, option) of each option that matches
matched_pairs(filter_terms, opts) ==
    IF opts = <<>> THEN <<>>
    ELSE LET m == calculate_match_score(Head(opts), filter_terms)
         IN  (IF m.some THEN << <<0 - m.score, Head(opts)>> >> ELSE <<>>)
             \o matched_pairs(filter_terms, Tail(opts))

filter_options(filter, opts) ==
    LET sorted == SortPairs(matched_pairs(split_whitespace(filter), opts))
    IN  [r \in 1..Len(sorted) |-> sorted[r][2]]

\* print_options: the rows drawn (skip(first_item).take(MAX_OPTIONS_SHOWN)) and
\* which of them is highlighted (0: none)
print_options(sel, list) ==
    LET rows == SubSeq(list, sel.first_item + 1,
                       Min({Len(list), sel.first_item + MAX_OPTIONS_SHOWN}))
    IN  [rows |-> rows,
         hl   |-> IF sel.first_item <= sel.selected
                     /\ sel.selected < sel.first_item + Len(rows)
                  THEN sel.selected - sel.first_item + 1 ELSE 0]

---------------------------------------------------------------------------
(* Inputs the environment offers *)

\* chars typed into basic_prompt: a word char, whitespace, a two-byte word char
BasicChars == {"a", " ", "e_acute"}

\* chars typed into select_prompt's filter, by the option list in use
FilterChars(opts) ==
    IF Len(opts) > MAX_OPTIONS_SHOWN THEN {"a", "z"} ELSE {"a", "l", "z"}

\* Normal / OperatorPending command letters, and one letter that is no command
CommandChars == {"i", "I", "a", "A", "x", "X", "h", "l", "c", "d", "e", "b", "w", "z"}

\* the command letters offered to select_prompt's filter field
SelectCommandChars == {"i", "a", "x", "l", "d", "w", "j", "k", "z"}

ControlKeys ==
    {Key("Enter", "", "NONE"), Key("Enter", "", "SHIFT"), Key("Enter", "", "CONTROL"),
     Key("Esc", "", "NONE"), Key("Backspace", "", "NONE"), Key("Tab", "", "NONE"),
     Key("Char", "c", "CONTROL"), Key("Char", "n", "CONTROL"), Key("Char", "p", "CONTROL")}

\* the key events offered to basic_prompt in mode m
BasicKeys(m) ==
    ControlKeys \cup
    {Key("Char", ch, "NONE") : ch \in IF m = Insert THEN BasicChars ELSE CommandChars}

\* the key events offered to select_prompt in mode m
SelectKeys(m) ==
    ControlKeys \cup
    {Key("Char", ch, "NONE") :
        ch \in IF m = Insert THEN FilterChars(options) ELSE SelectCommandChars}

BooleanKeys ==
    ControlKeys \cup {Key("Char", ch, "NONE") : ch \in {"l", "f", "n", "h", "t", "y", "z"}}
                \cup {Key("Char", "Y", "SHIFT"), Key("Char", "n", "ALT")}

RECURSIVE Numeral(_)
\* the i-th string over {a, b} in length-then-alphabet order: a, b, aa, ab, ba, ...
Numeral(i) ==
    IF i = 0 THEN <<>>
    ELSE Append(Numeral((i - 1) \div 2), IF i % 2 = 1 THEN "a" ELSE "b")

\* the option lists handed to select_prompt
OptionLists ==
    { <<>>,
      << <<"b">>, <<"a">> >>,
      << <<"a", "l", "p", "h", "a">>, <<"b", "e", "t", "a">>, <<"g", "a", "m", "m", "a">> >> }
    \cup { [i \in 1..n |-> Numeral(i)] : n \in (MAX_OPTIONS_SHOWN + 1)..MaxOptions }

---------------------------------------------------------------------------
(* The prompt calls *)

NoResult == [kind |-> "none"]
OkResult(v) == [kind |-> "ok", v |-> v]
ErrResult(e) == [kind |-> "err", v |-> e]

NoScreen == [rows |-> <<>>, hl |-> 0]

NoScenario == [line |-> <<>>, cursor |-> 0, keys |-> <<>>]

CurrentPrompt == [cursor |-> cursor, line |-> line, mode |-> mode, panicked |-> FALSE]

CurrentSelection ==
    [selected |-> selected, first_item |-> first_item, items_shown |-> items_shown,
     max_index |-> max_index, has_options |-> has_options, panicked |-> FALSE]

SetPrompt(st) == cursor' = st.cursor /\ line' = st.line /\ mode' = st.mode

SetSelection(sel) ==
    /\ selected' = sel.selected
    /\ first_item' = sel.first_item
    /\ items_shown' = sel.items_shown
    /\ max_index' = sel.max_index
    /\ has_options' = sel.has_options

\* the loop goes on
Continues == status' = "running" /\ result' = NoResult /\ loop_exit' = "none" /\ UNCHANGED raw_mode

\* the call returns Ok(v) after disable_raw_mode()
Returns(v, exit) ==
    status' = "returned" /\ result' = OkResult(v) /\ loop_exit' = exit /\ raw_mode' = FALSE

\* `?` or bail! returns the error from where it arose
Fails(e) ==
    status' = "failed" /\ result' = ErrResult(e) /\ loop_exit' = "error" /\ UNCHANGED raw_mode

\* the thread panics where it stands
Panics == status' = "panicked" /\ result' = NoResult /\ loop_exit' = "panic" /\ UNCHANGED raw_mode

\* u16::try_from(state.cursor) of update_cursor
FitsU16(n) == 0 <= n /\ n <= 65535

\* the texts and cursors the model follows
InBounds(st, maxlen) ==
    /\ Len(st.line) <= maxlen
    /\ st.cursor <= ByteLen(st.line) + MaxOvershoot

Init ==
    /\ build \in {"debug", "release"}
    /\ call = "none"
    /\ status = "idle"
    /\ result = NoResult
    /\ raw_mode = FALSE
    /\ cursor = 0 /\ line = <<>> /\ mode = Insert
    /\ selected = 0 /\ first_item = 0 /\ items_shown = 0 /\ max_index = 0
    /\ has_options = FALSE
    /\ options = <<>>
    /\ toggle = FALSE
    /\ screen = NoScreen
    /\ refiltered = FALSE
    /\ loop_exit = "none"
    /\ scenario = NoScenario
    /\ sections = <<>>

\* basic_prompt up to its key loop: raw mode on, an empty Insert-mode line
CallBasic ==
    /\ status = "idle"
    /\ call' = "basic"
    /\ SetPrompt(PromptState_new)
    /\ status' = "running" /\ raw_mode' = TRUE
    /\ UNCHANGED <<build, scenario, sections, result, selected, first_item, items_shown, max_index,
                   has_options, options, toggle, screen, refiltered, loop_exit>>

\* select_prompt up to its key loop: the SelectionState, raw mode on, and the
\* first render, which draws `options` itself (unfiltered, unsorted)
CallSelect ==
    /\ status = "idle"
    /\ \E opts \in OptionLists :
         LET shown     == Min({MAX_OPTIONS_SHOWN, Len(opts)})
             max_items == USub(Len(opts), 1)
             sel       == SelectionState_new(shown, max_items.v)
         IN  /\ call' = "select"
             /\ options' = opts
             /\ SetPrompt(PromptState_new)
             /\ IF max_items.ok
                THEN /\ SetSelection(sel)
                     /\ screen' = print_options(sel, opts)
                     /\ status' = "running" /\ raw_mode' = TRUE
                     /\ UNCHANGED <<result, loop_exit>>
                ELSE /\ UNCHANGED <<selected, first_item, items_shown, max_index,
                                    has_options, screen>>
                     /\ Panics
    /\ UNCHANGED <<build, scenario, sections, toggle, refiltered>>

\* boolean_prompt up to its key loop
CallBoolean ==
    /\ status = "idle"
    /\ call' = "boolean"
    /\ toggle' \in BOOLEAN
    /\ status' = "running" /\ raw_mode' = TRUE
    /\ UNCHANGED <<build, scenario, sections, result, cursor, line, mode, selected, first_item, items_shown,
                   max_index, has_options, options, screen, refiltered, loop_exit>>

\* the rest of a turn of basic_prompt's loop once handle_key has handed back r
BasicTurn(r) ==
    /\ call = "basic" /\ status = "running"
    /\ InBounds(r.st, MaxLen)
    /\ SetPrompt(r.st)
    /\ CASE r.out = "interrupt" -> Fails("ctrl-c sent")
         [] r.out = "panic"     -> Panics
         [] r.out = "done"      -> Returns(r.st.line, "break")
         [] r.out = "continue"  ->
               IF FitsU16(r.st.cursor) THEN Continues ELSE Fails("TryFromIntError")
    /\ UNCHANGED <<build, scenario, sections, call, selected, first_item, items_shown, max_index,
                   has_options, options, toggle, screen, refiltered>>

\* one turn of basic_prompt's loop on `key`: handle_key, then the redraw
BasicStep(key) == BasicTurn(handle_key(CurrentPrompt, key))

BasicKey == \E key \in BasicKeys(mode) : BasicStep(key)

\* select_prompt after its loop: clear, leave raw mode, index the re-filtered list
SelectFinish(sel, st, exit) ==
    LET index(filtered_options) ==
            IF sel.selected < Len(filtered_options)
            THEN Returns(filtered_options[sel.selected + 1], exit)
            ELSE /\ status' = "panicked" /\ result' = NoResult
                 /\ loop_exit' = exit /\ raw_mode' = FALSE
    IN  index(filter_options(st.line, options))

\* one turn of select_prompt's loop on `key`: select_handle_key, then the
\* re-filter (update_max_index) and the redraw
\* the new SelectionState is kept and the list drawn
SelectRedraw(sel, filtered_options) ==
    /\ SetSelection(sel)
    /\ screen' = print_options(sel, filtered_options)
    /\ refiltered' = TRUE

\* the re-filter of a turn: update_max_index on the new filtered list, then the redraw
SelectRefilter(sel, filtered_options) ==
    IF filtered_options = <<>>
    THEN SelectRedraw(update_max_index(sel, 0, FALSE), filtered_options)
    ELSE SelectRedraw(update_max_index(sel, Len(filtered_options) - 1, TRUE),
                      filtered_options)

\* the rest of a turn of select_prompt's loop once select_handle_key has handed back r
SelectTurn(r) ==
    /\ call = "select" /\ status = "running"
    /\ InBounds(r.st, MaxFilterLen)
    /\ SetPrompt(r.st)
    /\ CASE r.out = "interrupt" ->
               Fails("ctrl-c sent") /\ SetSelection(r.sel) /\ UNCHANGED <<screen, refiltered>>
         [] r.out = "panic" ->
               Panics /\ SetSelection(r.sel) /\ UNCHANGED <<screen, refiltered>>
         [] r.out = "done" ->
               /\ SelectFinish(r.sel, r.st, "break")
               /\ SetSelection(r.sel)
               /\ UNCHANGED <<screen, refiltered>>
         [] r.out = "continue" ->
               /\ SelectRefilter(r.sel, filter_options(r.st.line, options))
               /\ IF FitsU16(r.st.cursor) THEN Continues ELSE Fails("TryFromIntError")
    /\ UNCHANGED <<build, scenario, sections, call, options, toggle>>

\* one turn of select_prompt's loop on `key`: select_handle_key, then the
\* re-filter (update_max_index) and the redraw
SelectStep(key) == SelectTurn(select_handle_key(CurrentSelection, CurrentPrompt, key))

SelectKey == \E key \in SelectKeys(mode) : SelectStep(key)

\* boolean_prompt's loop body with 'n' among the keys that set true
BooleanStep_n_sets_true(key) ==
    /\ call = "boolean" /\ status = "running"
    /\ IF key = Key("Char", "c", "CONTROL")
       THEN Fails("ctrl-c sent") /\ UNCHANGED toggle
       ELSE IF key.mods \in {"NONE", "SHIFT"} /\ key.code = "Enter"
       THEN Returns(toggle, "break") /\ UNCHANGED toggle
       ELSE /\ Continues
            /\ toggle' = IF key.mods \notin {"NONE", "SHIFT"} \/ key.code # "Char" THEN toggle
                         ELSE IF key.ch \in {"l", "f"} THEN FALSE
                         ELSE IF key.ch \in {"h", "t", "y", "n"} THEN TRUE
                         ELSE toggle
    /\ UNCHANGED <<build, scenario, sections, call, cursor, line, mode, selected, first_item, items_shown,
                   max_index, has_options, options, screen, refiltered>>

\* one turn of boolean_prompt's loop on `key`
BooleanStep(key) ==
    /\ call = "boolean" /\ status = "running"
    /\ IF key = Key("Char", "c", "CONTROL")
       THEN Fails("ctrl-c sent") /\ UNCHANGED toggle
       ELSE IF key.mods \in {"NONE", "SHIFT"} /\ key.code = "Enter"
       THEN Returns(toggle, "break") /\ UNCHANGED toggle
       ELSE /\ Continues
            /\ toggle' = IF key.mods \notin {"NONE", "SHIFT"} \/ key.code # "Char" THEN toggle
                         ELSE IF key.ch \in {"l", "f", "n"} THEN FALSE
                         ELSE IF key.ch \in {"h", "t", "y"} THEN TRUE
                         ELSE toggle
    /\ UNCHANGED <<build, scenario, sections, call, cursor, line, mode, selected, first_item, items_shown,
                   max_index, has_options, options, screen, refiltered>>

BooleanKey == \E key \in BooleanKeys : BooleanStep(key)

\* event::read() delivers an event that is no Event::Key (a resize, say): the
\* `while let` pattern fails and the loop ends as it does by break
OtherEvent ==
    /\ status = "running"
    /\ CASE call = "basic"   -> Returns(line, "pattern")
         [] call = "select"  -> SelectFinish(CurrentSelection, CurrentPrompt, "pattern")
         [] call = "boolean" -> Returns(toggle, "pattern")
    /\ UNCHANGED <<build, scenario, sections, call, cursor, line, mode, selected, first_item, items_shown,
                   max_index, has_options, options, toggle, screen, refiltered>>

\* event::read() fails: `?` returns the error from inside the loop
ReadError ==
    /\ status = "running"
    /\ Fails("io")
    /\ UNCHANGED <<build, scenario, sections, call, cursor, line, mode, selected, first_item, items_shown,
                   max_index, has_options, options, toggle, screen, refiltered>>

\* basic_prompt and boolean_prompt
Next ==
    \/ CallBasic
    \/ CallBoolean
    \/ BasicKey
    \/ BooleanKey
    \/ OtherEvent
    \/ ReadError

Spec == Init /\ [][Next]_vars

\* select_prompt
NextSelect ==
    \/ CallSelect
    \/ SelectKey
    \/ OtherEvent
    \/ ReadError

SpecSelect == Init /\ [][NextSelect]_vars

\* the three prompts together
NextPrompts ==
    \/ CallBasic
    \/ CallSelect
    \/ CallBoolean
    \/ BasicKey
    \/ SelectKey
    \/ BooleanKey
    \/ OtherEvent
    \/ ReadError

SpecPrompts == Init /\ [][NextPrompts]_vars

---------------------------------------------------------------------------
(* The word functions on their own: every text and cursor, each function   *)
(* applied once.                                                           *)

RECURSIVE Texts(_, _)
\* the texts of at most n chars over the alphabet
Texts(alphabet, n) ==
    IF n = 0 THEN {<<>>}
    ELSE LET shorter == Texts(alphabet, n - 1)
         IN  shorter \cup {Append(t, c) : t \in shorter, c \in alphabet}

InitWord ==
    /\ build \in {"debug", "release"}
    /\ call = "word"
    /\ status = "idle"
    /\ result = NoResult
    /\ raw_mode = FALSE
    /\ line \in Texts(BasicChars, MaxLen)
    /\ cursor \in 0..ByteLen(line)
    /\ mode = Normal
    /\ selected = 0 /\ first_item = 0 /\ items_shown = 0 /\ max_index = 0
    /\ has_options = FALSE
    /\ options = <<>>
    /\ toggle = FALSE
    /\ screen = NoScreen
    /\ refiltered = FALSE
    /\ loop_exit = "none"
    /\ scenario = NoScenario
    /\ sections = <<>>

\* the function's name and what it gave: a value, or a panic (ok = FALSE)
Applied(fn, r) ==
    /\ call = "word" /\ status = "idle"
    /\ status' = "returned"
    /\ result' = [kind |-> fn, ok |-> r.ok, v |-> IF r.ok THEN r.v ELSE 0]
    /\ UNCHANGED <<build, scenario, sections, call, raw_mode, cursor, line, mode, selected, first_item,
                   items_shown, max_index, has_options, options, toggle, screen,
                   refiltered, loop_exit>>

ApplyWordEnd == Applied("get_current_word_end", get_current_word_end(CurrentPrompt))

ApplyWordStart == Applied("get_current_word_start", get_current_word_start(CurrentPrompt))

ApplyNextWordStart == Applied("get_next_word_start", get_next_word_start(CurrentPrompt))

NextWord ==
    \/ ApplyWordEnd
    \/ ApplyWordStart
    \/ ApplyNextWordStart

SpecWord == InitWord /\ [][NextWord]_vars

---------------------------------------------------------------------------
(* next_item / previous_item on their own: a SelectionState as             *)
(* select_prompt builds it for n >= 1 options, with max_index fixed at the *)
(* value a filter left it (m <= n - 1).                                    *)

InitNav ==
    /\ build \in {"debug", "release"}
    /\ call = "nav"
    /\ status = "running"
    /\ result = NoResult
    /\ raw_mode = FALSE
    /\ cursor = 0 /\ line = <<>> /\ mode = Insert
    /\ \E n \in 1..MaxOptions :
         /\ items_shown = Min({MAX_OPTIONS_SHOWN, n})
         /\ max_index \in 0..(n - 1)
    /\ selected = 0 /\ first_item = 0
    /\ has_options = TRUE
    /\ options = <<>>
    /\ toggle = FALSE
    /\ screen = NoScreen
    /\ refiltered = FALSE
    /\ loop_exit = "none"
    /\ scenario = NoScenario
    /\ sections = <<>>

NavApply(sel) ==
    /\ call = "nav" /\ status = "running"
    /\ SetSelection(sel)
    /\ IF sel.panicked THEN Panics ELSE Continues
    /\ UNCHANGED <<build, scenario, sections, call, cursor, line, mode, options, toggle, screen, refiltered>>

NavNext == NavApply(next_item(CurrentSelection))

NavPrevious == NavApply(previous_item(CurrentSelection))

NextNav ==
    \/ NavNext
    \/ NavPrevious

SpecNav == InitNav /\ [][NextNav]_vars

---------------------------------------------------------------------------
(* filter_options on its own: an option list and a filter text; the filter *)
(* is applied, then grows by one typed char at a time and is applied again *)
(* (the re-filter of select_prompt's loop).                                *)

FilterTextChars == {"a", "l", " "}

FilterOptionLists ==
    { << <<"b">>, <<"a">> >>,
      << <<"a", "l", "p", "h", "a">>, <<"b", "e", "t", "a">>, <<"g", "a", "m", "m", "a">> >>,
      << <<"l", "a">>, <<"a", "l">>, <<"a">> >> }

InitFilter ==
    /\ build \in {"debug", "release"}
    /\ call = "filter"
    /\ status = "idle"
    /\ result = NoResult
    /\ raw_mode = FALSE
    /\ cursor = 0 /\ mode = Insert
    /\ line \in Texts(FilterTextChars, MaxFilterText - 1)
    /\ selected = 0 /\ first_item = 0 /\ items_shown = 0 /\ max_index = 0
    /\ has_options = FALSE
    /\ options \in FilterOptionLists
    /\ toggle = FALSE
    /\ screen = NoScreen
    /\ refiltered = FALSE
    /\ loop_exit = "none"
    /\ scenario = NoScenario
    /\ sections = <<>>

\* filter_options(filter, options) is called and hands back its Vec
Filtered(filter) ==
    /\ call = "filter"
    /\ line' = filter
    /\ status' = "returned"
    /\ result' = OkResult(filter_options(filter, options))
    /\ UNCHANGED <<build, scenario, sections, call, raw_mode, cursor, mode, selected, first_item,
                   items_shown, max_index, has_options, options, toggle, screen,
                   refiltered, loop_exit>>

ApplyFilter == status = "idle" /\ Filtered(line)

ExtendFilter ==
    /\ status = "returned" /\ Len(line) < MaxFilterText
    /\ \E c \in FilterTextChars : Filtered(Append(line, c))

NextFilter ==
    \/ ApplyFilter
    \/ ExtendFilter

SpecFilter == InitFilter /\ [][NextFilter]_vars

---------------------------------------------------------------------------
(* Key scenarios: handle_key on a PromptState in Normal mode that holds a  *)
(* given text with the cursor at 0; `scenario` keeps the start and the     *)
(* keys handled so far.                                                    *)

FooBarBaz == <<"f", "o", "o", " ", "b", "a", "r", " ", "b", "a", "z">>

OneTwoThree == <<"o", "n", "e", " ", "t", "w", "o", " ", "t", "h", "r", "e", "e">>

ScenarioTexts == {FooBarBaz, OneTwoThree}

\* the keys of the scenarios: the operators, the word motions, and x
ScenarioKeys == {Key("Char", ch, "NONE") : ch \in {"c", "d", "w", "e", "x"}}

InitKeys ==
    /\ build \in {"debug", "release"}
    /\ call = "keys"
    /\ status = "running"
    /\ result = NoResult
    /\ raw_mode = TRUE
    /\ line \in ScenarioTexts
    /\ cursor = 0 /\ mode = Normal
    /\ selected = 0 /\ first_item = 0 /\ items_shown = 0 /\ max_index = 0
    /\ has_options = FALSE
    /\ options = <<>>
    /\ toggle = FALSE
    /\ screen = NoScreen
    /\ refiltered = FALSE
    /\ loop_exit = "none"
    /\ scenario = [line |-> line, cursor |-> 0, keys |-> <<>>]
    /\ sections = <<>>

\* handle_key has handled `key` and handed back r
KeysTurn(key, r) ==
    /\ call = "keys" /\ status = "running"
    /\ Len(scenario.keys) < MaxKeys
    /\ scenario' = [scenario EXCEPT !.keys = Append(@, key.ch)]
    /\ SetPrompt(r.st)
    /\ IF r.out = "panic" THEN Panics ELSE Continues
    /\ UNCHANGED <<build, call, sections, selected, first_item, items_shown, max_index,
                   has_options, options, toggle, screen, refiltered>>

KeysStep(key) == KeysTurn(key, handle_key(CurrentPrompt, key))

NextKeys == \E key \in ScenarioKeys : KeysStep(key)

SpecKeys == InitKeys /\ [][NextKeys]_vars

\* typing into a new prompt: PromptState::new, and printable chars as keys
TypedKeys == {Key("Char", ch, "NONE") : ch \in BasicChars}

InitTyping ==
    /\ build \in {"debug", "release"}
    /\ call = "keys"
    /\ status = "running"
    /\ result = NoResult
    /\ raw_mode = TRUE
    /\ cursor = 0 /\ line = <<>> /\ mode = Insert
    /\ selected = 0 /\ first_item = 0 /\ items_shown = 0 /\ max_index = 0
    /\ has_options = FALSE
    /\ options = <<>>
    /\ toggle = FALSE
    /\ screen = NoScreen
    /\ refiltered = FALSE
    /\ loop_exit = "none"
    /\ scenario = NoScenario
    /\ sections = <<>>

NextTyping == \E key \in TypedKeys : KeysStep(key)

SpecTyping == InitTyping /\ [][NextTyping]_vars

---------------------------------------------------------------------------
(* todo.rs: TodoFile and its global item indices *)

MaxItems == 2    \* items per section of the files the methods are run on

TodoItem(index, completed, description) ==
    [index |-> index, completed |-> completed, description |-> description]

TodoSection(name, level, items) == [name |-> name, level |-> level, items |-> items]

\* for section in &self.sections { for item in &section.items { push; global_index += 1 } }
RECURSIVE all_items_from(_, _, _, _)
all_items_from(secs, s, k, global_index) ==
    IF s > Len(secs) THEN <<>>
    ELSE IF k > Len(secs[s].items) THEN all_items_from(secs, s + 1, 1, global_index)
    ELSE <<[global_index |-> global_index, section |-> secs[s], item |-> secs[s].items[k]]>>
         \o all_items_from(secs, s, k + 1, global_index + 1)

all_items(secs) == all_items_from(secs, 1, 1, 1)

RECURSIVE total_items(_)
total_items(secs) ==
    IF secs = <<>> THEN 0 ELSE Len(Head(secs).items) + total_items(Tail(secs))

validate_user_index(secs, user_index) ==
    IF total_items(secs) = 0 THEN ErrResult("No todo items found.")
    ELSE IF user_index = 0 \/ user_index > total_items(secs)
    THEN ErrResult("Invalid index")
    ELSE OkResult("unit")

\* let local_index = user_index - global_index (0-based)
local_index_first(user_index, global_index) == 0

local_index(user_index, global_index) == user_index - global_index

\* Vec::remove(local_index), 0-based
vec_remove(items, local) ==
    [k \in 1..(Len(items) - 1) |-> IF k <= local THEN items[k] ELSE items[k + 1]]

\* for (i, item) in section.items.iter_mut().enumerate() { item.index = i + 1 }
reindex(items) == [k \in 1..Len(items) |-> [items[k] EXCEPT !.index = k]]

\* the section loop of remove_item from section s on; the result and the sections left
RECURSIVE remove_item_from(_, _, _, _)
remove_item_from(secs, user_index, s, global_index) ==
    IF s > Len(secs) THEN [res |-> ErrResult("Invalid index"), sections |-> secs]
    ELSE IF global_index + Len(secs[s].items) > user_index
    THEN [res |-> OkResult(secs[s].items[local_index(user_index, global_index) + 1]),
          sections |-> [secs EXCEPT ![s].items =
                            reindex(vec_remove(@, local_index(user_index, global_index)))]]
    ELSE remove_item_from(secs, user_index, s + 1, global_index + Len(secs[s].items))

remove_item(secs, user_index) ==
    IF validate_user_index(secs, user_index).kind = "err"
    THEN [res |-> validate_user_index(secs, user_index), sections |-> secs]
    ELSE remove_item_from(secs, user_index, 1, 1)

RECURSIVE set_item_completion_from(_, _, _, _, _)
set_item_completion_from(secs, user_index, completed, s, global_index) ==
    IF s > Len(secs) THEN [res |-> ErrResult("Invalid index"), sections |-> secs]
    ELSE IF global_index + Len(secs[s].items) > user_index
    THEN [res |-> OkResult("unit"),
          sections |-> [secs EXCEPT
              ![s].items[local_index(user_index, global_index) + 1].completed = completed]]
    ELSE set_item_completion_from(secs, user_index, completed, s + 1,
                                  global_index + Len(secs[s].items))

set_item_completion(secs, user_index, completed) ==
    IF validate_user_index(secs, user_index).kind = "err"
    THEN [res |-> validate_user_index(secs, user_index), sections |-> secs]
    ELSE set_item_completion_from(secs, user_index, completed, 1, 1)

\* the files the methods are run on: the sections of the tests, in either order,
\* each with up to MaxItems items whose index is their place in the section and
\* whose description <<name, k>> stands for the text "<name> task <k>"
SectionHeadings == {<<>>, <<"Todo">>, <<"Work">>, <<"Todo", "Work">>, <<"Work", "Todo">>}

CompletedLists == UNION {[1..n -> BOOLEAN] : n \in 0..MaxItems}

ItemsOf(name, done) == [k \in 1..Len(done) |-> TodoItem(k, done[k], <<name, k>>)]

LevelOf(name) == IF name = "Todo" THEN 1 ELSE 2

TodoFiles ==
    UNION {{[s \in 1..Len(names) |->
                 TodoSection(names[s], LevelOf(names[s]), ItemsOf(names[s], done[s]))] :
                done \in [1..Len(names) -> CompletedLists]} :
           names \in SectionHeadings}

UserIndices == 0..(2 * MaxItems + 1)

NoTodoCall == [op |-> "none", user_index |-> 0, completed |-> FALSE, before |-> <<>>]

InitTodo ==
    /\ build \in {"debug", "release"}
    /\ call = "todo"
    /\ status = "idle"
    /\ result = NoResult
    /\ raw_mode = FALSE
    /\ cursor = 0 /\ line = <<>> /\ mode = Insert
    /\ selected = 0 /\ first_item = 0 /\ items_shown = 0 /\ max_index = 0
    /\ has_options = FALSE
    /\ options = <<>>
    /\ toggle = FALSE
    /\ screen = NoScreen
    /\ refiltered = FALSE
    /\ loop_exit = "none"
    /\ scenario = NoTodoCall
    /\ sections \in TodoFiles

\* a TodoFile method has handed back r
TodoTurn(op, user_index, completed, r) ==
    /\ call = "todo"
    /\ scenario' = [op |-> op, user_index |-> user_index, completed |-> completed,
                    before |-> sections]
    /\ sections' = r.sections
    /\ result' = r.res
    /\ status' = IF r.res.kind = "ok" THEN "returned" ELSE "failed"
    /\ UNCHANGED <<build, call, raw_mode, cursor, line, mode, selected, first_item,
                   items_shown, max_index, has_options, options, toggle, screen,
                   refiltered, loop_exit>>

RemoveItem(user_index) ==
    TodoTurn("remove_item", user_index, FALSE, remove_item(sections, user_index))

SetItemCompletion(user_index, completed) ==
    TodoTurn("set_item_completion", user_index, completed,
             set_item_completion(sections, user_index, completed))

NextTodo ==
    \/ \E user_index \in UserIndices : RemoveItem(user_index)
    \/ \E user_index \in UserIndices, completed \in BOOLEAN :
           SetItemCompletion(user_index, completed)

SpecTodo == InitTodo /\ [][NextTodo]_vars

---------------------------------------------------------------------------
(* Claims *)

SelectRunning == call = "select" /\ status = "running"

\* the key events handle_key takes as Enter
EnterKeys == {Key("Enter", "", "NONE"), Key("Enter", "", "SHIFT")}

\* C1: whenever basic_prompt or boolean_prompt has returned, with a value or
\* with an error (Ctrl-C, an I/O failure), terminal raw mode is disabled.
C1_RawModeOffAfterCall ==
    status \in {"returned", "failed"} => raw_mode = FALSE

\* C2: after any key sequence from a new prompt, in Insert mode
\* 0 <= cursor <= len(text), and in Normal / OperatorPending mode
\* 0 <= cursor <= max(0, len(text) - 1).
C2_CursorWithinText ==
    (call = "basic" /\ status = "running") =>
        /\ 0 <= cursor
        /\ cursor <= IF mode = Insert THEN Len(line) ELSE Max({0, Len(line) - 1})

\* C3: get_current_word_end, get_current_word_start and get_next_word_start
\* never panic and return an index in [0, len(T)), for every text T (the empty
\* one included) and every cursor.
C3_WordFunctionsTotalInRange ==
    (call = "word" /\ status = "returned") =>
        result.ok /\ 0 <= result.v /\ result.v < ByteLen(line)

\* C4: with max_index fixed, from selected = 0 and first_item = 0, every sequence
\* of next_item / previous_item calls keeps 0 <= first_item <= selected <=
\* first_item + items_shown - 1; next_item at selected = max_index and
\* previous_item at selected = 0 change nothing.
C4_ViewportKeepsSelection ==
    call = "nav" =>
        /\ status = "running"
        /\ 0 <= first_item /\ first_item <= selected
        /\ selected <= first_item + items_shown - 1
        /\ selected = max_index => next_item(CurrentSelection) = CurrentSelection
        /\ selected = 0 => previous_item(CurrentSelection) = CurrentSelection

\* C4 witness: the viewport has scrolled down to the last option
C4_ScrolledToLast ==
    call = "nav" /\ status = "running" /\ first_item > 0 /\ selected = max_index

\* C5: in select_prompt, after every processed keystroke with at least one
\* match, first_item <= selected <= first_item + items_shown - 1: the highlighted
\* option is one of the drawn rows.
C5_SelectedRowIsDrawn ==
    (SelectRunning /\ refiltered /\ has_options) =>
        /\ first_item <= selected /\ selected <= first_item + items_shown - 1
        /\ screen.hl # 0

\* C6: in select_prompt, after every processed keystroke with has_options,
\* 0 <= first_item <= selected <= max_index, where max_index is the number of
\* matching options minus one.
C6_SelectionWithinMatches ==
    (SelectRunning /\ refiltered /\ has_options) =>
        /\ 0 <= first_item /\ first_item <= selected /\ selected <= max_index
        /\ max_index = Len(filter_options(line, options)) - 1

\* C6 witness: a filter edit has left fewer matches than options and the
\* selection sits on the last of them, below the first
C6_ClampedToLastMatch ==
    /\ SelectRunning /\ refiltered /\ has_options
    /\ line # <<>> /\ max_index < Len(options) - 1
    /\ selected = max_index /\ selected > 0

\* C7: when select_prompt returns on Enter, the returned string is one of the
\* options and is the option highlighted in the most recently rendered list
\* (the initial rendering included).
C7_ReturnsHighlightedOption ==
    (call = "select" /\ status = "returned" /\ loop_exit = "break") =>
        /\ \E i \in 1..Len(options) : options[i] = result.v
        /\ screen.hl # 0
        /\ screen.rows[screen.hl] = result.v

\* C8: while the filter matches no option, Enter (with any modifiers the editor
\* takes as Enter) neither ends select_prompt nor changes any state; select_prompt
\* returns an option only from a state with has_options.
C8_EnterInertWithoutMatches ==
    [][ /\ (SelectRunning /\ refiltered /\ ~has_options
                /\ \E key \in EnterKeys : SelectStep(key))
            => (status' = "running" /\ UNCHANGED <<cursor, line, mode, selected, first_item,
                                                   items_shown, max_index, has_options>>)
        /\ (call = "select" /\ status' = "returned" /\ status = "running") => has_options
      ]_vars

\* C9 as stated: a filter edit that empties the filtered list leaves selected and
\* first_item at the values they had before the edit.
C9_FrozenWhenEmptied ==
    [][ (SelectRunning /\ has_options /\ status' = "running" /\ ~has_options')
            => (selected' = selected /\ first_item' = first_item) ]_vars

\* C9 amended: a filter edit that empties the filtered list resets selected and
\* first_item to 0; they stay 0 while nothing matches, and are 0 right after
\* the edit that makes matches reappear.
C9_ResetWhenEmptied ==
    [][ /\ (SelectRunning /\ status' = "running" /\ ~has_options')
            => (selected' = 0 /\ first_item' = 0)
        /\ (SelectRunning /\ refiltered /\ ~has_options /\ status' = "running" /\ has_options')
            => (selected' = 0 /\ first_item' = 0)
      ]_vars

\* C9 witness: the filter matches none of several options
C9_NothingMatches ==
    SelectRunning /\ refiltered /\ ~has_options /\ Len(options) > 1 /\ line # <<>>

\* C10: select_prompt with zero options does not crash and never returns a
\* selection.
C10_ZeroOptionsNeverCrashes ==
    (call = "select" /\ options = <<>>) => status \notin {"panicked", "returned"}

FilterReturned == call = "filter" /\ status = "returned"

\* the elements of a sequence
Range(seq) == {seq[i] : i \in 1..Len(seq)}

\* the total score filter_options sorts an option by
TotalScore(option, filter) == calculate_match_score(option, split_whitespace(filter)).score

\* where an option stands in the original list
IndexIn(opts, option) == CHOOSE i \in 1..Len(opts) : opts[i] = option

\* pattern is an in-order subsequence of choice
IsSubsequence(pattern, choice) ==
    \E f \in [1..Len(pattern) -> 1..Len(choice)] :
        /\ \A k \in 1..Len(pattern) : choice[f[k]] = pattern[k]
        /\ \A k \in 1..(Len(pattern) - 1) : f[k] < f[k + 1]

\* the whitespace-separated terms of a text: its maximal runs of other chars
TermsOf(text) ==
    {SubSeq(text, a, b) : <<a, b>> \in
        {p \in (1..Len(text)) \X (1..Len(text)) :
            /\ p[1] <= p[2]
            /\ \A k \in p[1]..p[2] : text[k] # " "
            /\ (p[1] = 1 \/ text[p[1] - 1] = " ")
            /\ (p[2] = Len(text) \/ text[p[2] + 1] = " ")}}

AlphaBetaGamma ==
    << <<"a", "l", "p", "h", "a">>, <<"b", "e", "t", "a">>, <<"g", "a", "m", "m", "a">> >>

\* C11: filter_options returns the surviving options by descending total score,
\* and options of equal total score keep the relative order they have in the
\* original options list (with an empty filter: the original order).
C11_SortedByScoreTiesInOriginalOrder ==
    FilterReturned =>
        \A i, j \in 1..Len(result.v) :
            i < j =>
                \/ TotalScore(result.v[i], line) > TotalScore(result.v[j], line)
                \/ /\ TotalScore(result.v[i], line) = TotalScore(result.v[j], line)
                   /\ IndexIn(options, result.v[i]) < IndexIn(options, result.v[j])

\* C12: when the filter text grows by one appended char, every option
\* filter_options returns for the longer text was returned for the shorter one.
C12_NarrowingNeverGainsMatches ==
    [][ (FilterReturned /\ status' = "returned" /\ \E c \in FilterTextChars : line' = Append(line, c))
            => Range(result'.v) \subseteq Range(result.v) ]_vars

\* C12 witness: a filter grown to full length has dropped some options and kept others
C12_NarrowedByTyping ==
    /\ FilterReturned /\ Len(line) = MaxFilterText
    /\ result.v # <<>> /\ Len(result.v) < Len(options)

\* C13: an option is in the filtered list if and only if every whitespace-separated
\* term of the filter text is an in-order subsequence of it; for alpha, beta, gamma
\* the filter "a" keeps all three and "al" keeps only alpha; a filter with no terms
\* keeps every option.
C13_KeptIffEveryTermMatches ==
    FilterReturned =>
        /\ \A i \in 1..Len(options) :
              (options[i] \in Range(result.v))
                  <=> (\A term \in TermsOf(line) : IsSubsequence(term, options[i]))
        /\ (options = AlphaBetaGamma /\ line = <<"a">>) => Range(result.v) = Range(options)
        /\ (options = AlphaBetaGamma /\ line = <<"a", "l">>) => result.v = <<options[1]>>
        /\ TermsOf(line) = {} => Range(result.v) = Range(options)

\* C13 witness: the filter "al" has been applied to alpha, beta, gamma
C13_AlKeepsAlpha ==
    FilterReturned /\ options = AlphaBetaGamma /\ line = <<"a", "l">> /\ Len(result.v) = 1

CtrlC == Key("Char", "c", "CONTROL")

\* C14: Ctrl-C in any editor mode, in basic_prompt and in select_prompt, and
\* Ctrl-C in boolean_prompt, makes the call fail at once with the interrupt
\* error, never finish as done, and leaves text, cursor, mode, selection state
\* and the boolean value as they were.
C14_CtrlCInterruptsUnmodified ==
    [][ (status = "running" /\ (BasicStep(CtrlC) \/ SelectStep(CtrlC) \/ BooleanStep(CtrlC)))
            => /\ status' = "failed"
               /\ result' = ErrResult("ctrl-c sent")
               /\ UNCHANGED <<cursor, line, mode, selected, first_item, items_shown,
                              max_index, has_options, toggle>>
      ]_vars

\* C14 witness: Ctrl-C has ended select_prompt while an operator was pending on a
\* filter text
C14_InterruptedWhilePending ==
    /\ call = "select" /\ status = "failed" /\ result = ErrResult("ctrl-c sent")
    /\ mode.kind = "OperatorPending" /\ line # <<>>

BooleanLetters == {"h", "t", "y", "l", "f", "n"}

\* C15: in boolean_prompt each of the keys h, t, y sets the value true and each of
\* l, f, n sets it false; every other key leaves the value as it is; Enter
\* returns the current value (so the default when no such key was pressed, and
\* the value of the last such key otherwise).
C15_ReturnsLastSetValue ==
    [][ (call = "boolean" /\ status = "running") =>
            \A key \in BooleanKeys :
                BooleanStep(key) =>
                    /\ key = Key("Enter", "", "NONE")
                          => (status' = "returned" /\ result' = OkResult(toggle))
                    /\ (key.code = "Char" /\ key.mods = "NONE" /\ key.ch \in {"h", "t", "y"})
                          => (status' = "running" /\ toggle' = TRUE)
                    /\ (key.code = "Char" /\ key.mods = "NONE" /\ key.ch \in {"l", "f", "n"})
                          => (status' = "running" /\ toggle' = FALSE)
                    /\ (key.code # "Char" \/ key.ch \notin BooleanLetters)
                          => toggle' = toggle
      ]_vars

\* C15 witness: boolean_prompt has returned false on Enter
C15_ReturnedFalse ==
    call = "boolean" /\ status = "returned" /\ loop_exit = "break" /\ result = OkResult(FALSE)

BasicRunning == call = "basic" /\ status = "running"

\* C16: in Normal mode on a non-empty text at any cursor, c then c leaves the text
\* empty with cursor 0 in Insert mode, and d then d leaves it empty with cursor 0
\* in Normal mode (the first key only makes the operator pending).
C16_DoubledOperatorClearsLine ==
    [][ (BasicRunning /\ line # <<>>) =>
            /\ (mode = Normal /\ BasicStep(Key("Char", "c", "NONE")))
                  => (mode' = OperatorPending(Change("Empty")) /\ UNCHANGED <<line, cursor, status>>)
            /\ (mode = Normal /\ BasicStep(Key("Char", "d", "NONE")))
                  => (mode' = OperatorPending(Delete("Empty")) /\ UNCHANGED <<line, cursor, status>>)
            /\ (mode = OperatorPending(Change("Empty")) /\ BasicStep(Key("Char", "c", "NONE")))
                  => (line' = <<>> /\ cursor' = 0 /\ mode' = Insert /\ status' = "running")
            /\ (mode = OperatorPending(Delete("Empty")) /\ BasicStep(Key("Char", "d", "NONE")))
                  => (line' = <<>> /\ cursor' = 0 /\ mode' = Normal /\ status' = "running")
      ]_vars

\* C16 witness: the first c has made Change pending on a non-empty text with the
\* cursor off the start
C16_ChangePendingOffStart ==
    BasicRunning /\ mode = OperatorPending(Change("Empty")) /\ line # <<>> /\ cursor > 0

\* the keys that continue a pending operator: a qualifier, the operator's own
\* letter, a motion, Enter, Ctrl-C
Continuations(op) ==
    {Key("Char", ch, "NONE") : ch \in {"i", "a", "w", "e", "b"}}
        \cup {Key("Char", IF op.kind = "Change" THEN "c" ELSE "d", "NONE")}
        \cup EnterKeys \cup {CtrlC}

\* C20: in OperatorPending mode, whatever operator and qualifier are pending,
\* every key that is no continuation (Esc, Backspace and the other non-character
\* keys included) puts the editor back in Normal mode and leaves text and cursor
\* as they were.
C20_OtherKeysCancelPending ==
    (BasicRunning /\ mode.kind = "OperatorPending") =>
        \A key \in BasicKeys(mode) \ Continuations(mode.op) :
            handle_key(CurrentPrompt, key) =
                [st |-> [CurrentPrompt EXCEPT !.mode = Normal], out |-> "continue"]

\* the keys of a scenario, by their chars, on the text it started from
Typed(text, chars) == call = "keys" /\ scenario.line = text /\ scenario.keys = chars

\* C17 as stated: on "foo bar baz" in Normal mode with the cursor at 0, c w and
\* then x yield the text "x bar baz".
C17_CwKeepsTheSpace ==
    Typed(FooBarBaz, <<"c", "w", "x">>) =>
        line = <<"x", " ", "b", "a", "r", " ", "b", "a", "z">>

\* C17 amended: on "foo bar baz" in Normal mode with the cursor at 0, c w deletes
\* the word and the space after it ("bar baz", cursor 0, Insert mode), and x
\* then yields "xbar baz" with the cursor at 1.
C17_CwTakesTheSpace ==
    /\ Typed(FooBarBaz, <<"c", "w">>) =>
          (line = <<"b", "a", "r", " ", "b", "a", "z">> /\ cursor = 0 /\ mode = Insert)
    /\ Typed(FooBarBaz, <<"c", "w", "x">>) =>
          /\ line = <<"x", "b", "a", "r", " ", "b", "a", "z">>
          /\ cursor = 1 /\ mode = Insert /\ status = "running"

\* C17 witness: c, w and x have been typed on "foo bar baz"
C17_TypedCwX ==
    Typed(FooBarBaz, <<"c", "w", "x">>) /\ status = "running"

\* C18: on "foo bar baz" in Normal mode with the cursor at 0, d w yields "bar baz"
\* and d e yields " bar baz" (exactly "foo" deleted); both leave the cursor at 0
\* and the editor in Normal mode.
C18_DwAndDeOnFirstWord ==
    /\ Typed(FooBarBaz, <<"d", "w">>) =>
          /\ line = <<"b", "a", "r", " ", "b", "a", "z">>
          /\ cursor = 0 /\ mode = Normal /\ status = "running"
    /\ Typed(FooBarBaz, <<"d", "e">>) =>
          /\ line = <<" ", "b", "a", "r", " ", "b", "a", "z">>
          /\ cursor = 0 /\ mode = Normal /\ status = "running"

\* C18 witness: d e has deleted "foo"
C18_TypedDe ==
    Typed(FooBarBaz, <<"d", "e">>) /\ Len(line) = Len(FooBarBaz) - 3

\* only w has been pressed, n times, on "one two three"
PressedW(n) == Typed(OneTwoThree, [i \in 1..n |-> "w"])

\* C19 as stated: on "one two three" from cursor 0, w moves the cursor
\* 0 -> 4 -> 8, and every further w leaves it at 8.
C19_WStopsAtLastWordStart ==
    \A n \in 0..MaxKeys :
        PressedW(n) => cursor = (IF n = 0 THEN 0 ELSE IF n = 1 THEN 4 ELSE 8)

\* C19 amended: on "one two three" from cursor 0, w moves the cursor
\* 0 -> 4 -> 8 -> 12 (the last char of the text), and every further w leaves it
\* at 12; text and mode stay as they are.
C19_WStopsAtLastChar ==
    \A n \in 0..MaxKeys :
        PressedW(n) =>
            /\ cursor = (IF n = 0 THEN 0 ELSE IF n = 1 THEN 4 ELSE IF n = 2 THEN 8 ELSE 12)
            /\ line = OneTwoThree /\ mode = Normal /\ status = "running"

\* C19 witness: w has been pressed past the last word
C19_PressedWFourTimes ==
    PressedW(4) /\ cursor = 12

\* `after` is `before` with one run of consecutive chars (maybe none) taken out
RemovesOneRange(before, after) ==
    \E a \in 0..Len(before) : \E b \in a..Len(before) :
        after = SubSeq(before, 1, a) \o SubSeq(before, b + 1, Len(before))

\* the mode the claim gives an applied operator
ModeAfter(op) == IF op.kind = "Change" THEN Insert ELSE Normal

MotionKeys == {Key("Char", ch, "NONE") : ch \in {"w", "e", "b"}}

WithoutChar(text, k) == SubSeq(text, 1, k - 1) \o SubSeq(text, k + 1, Len(text))

\* C22: in Normal mode X removes exactly the char just before the cursor and
\* moves the cursor left by one, the char under the cursor and all later chars
\* staying in place; with the cursor at 0 the text is unchanged.
C22_XDeletesCharBeforeCursor ==
    (BasicRunning /\ mode = Normal) =>
        LET r == handle_key(CurrentPrompt, Key("Char", "X", "SHIFT"))
        IN  /\ r.out = "continue"
            /\ r.st.mode = Normal
            /\ IF cursor = 0
               THEN r.st.line = line /\ r.st.cursor = 0
               ELSE \E k \in 1..Len(line) :
                        /\ Offset(line, k) < cursor /\ cursor <= Offset(line, k + 1)
                        /\ r.st.line = WithoutChar(line, k)
                        /\ r.st.cursor = Offset(line, k)

\* C23: in Insert mode Backspace with cursor > 0 removes exactly the char just
\* before the cursor and puts the cursor where that char began (one to the
\* left), at the end of the text as in the middle; with cursor = 0 it changes
\* neither text nor cursor; the mode stays Insert.
C23_BackspaceDeletesCharBeforeCursor ==
    (BasicRunning /\ mode = Insert) =>
        LET r == handle_key(CurrentPrompt, Key("Backspace", "", "NONE"))
        IN  /\ r.out = "continue"
            /\ r.st.mode = Insert
            /\ IF cursor = 0
               THEN r.st.line = line /\ r.st.cursor = 0
               ELSE \E k \in 1..Len(line) :
                        /\ Offset(line, k) < cursor /\ cursor <= Offset(line, k + 1)
                        /\ r.st.line = WithoutChar(line, k)
                        /\ r.st.cursor = Offset(line, k)

\* C24 as stated: in select_prompt the filter field never reaches Normal or
\* OperatorPending mode, so only Insert-mode editing changes the filter text.
C24_FilterStaysInInsertMode ==
    SelectRunning => mode = Insert

\* what select_handle_key makes of a key in the current state
OnSelectKey(key) == select_handle_key(CurrentSelection, CurrentPrompt, key)

\* C24 amended: in select_prompt Esc puts the filter field into Normal mode with
\* the text unchanged; in Normal mode j and k are taken for list navigation and
\* leave the filter field alone, while the editor's commands reach the field: x
\* deletes the char under the cursor and d makes Delete pending.
C24_NormalModeEditsFilter ==
    SelectRunning =>
        /\ mode = Insert =>
              LET r == OnSelectKey(Key("Esc", "", "NONE"))
              IN  r.out = "continue" /\ r.st.mode = Normal /\ r.st.line = line
        /\ mode = Normal =>
              /\ \A ch \in {"j", "k"} :
                    OnSelectKey(Key("Char", ch, "NONE")).st = CurrentPrompt
              /\ OnSelectKey(Key("Char", "d", "NONE")).st
                    = [CurrentPrompt EXCEPT !.mode = OperatorPending(Delete("Empty"))]
              /\ (0 <= cursor /\ cursor < Len(line)) =>
                    OnSelectKey(Key("Char", "x", "NONE")).st
                        = [CurrentPrompt EXCEPT !.line = WithoutChar(line, cursor + 1)]

\* C24 witness: a filter text has been typed, Esc has led to Normal mode and d
\* has reached the editor
C24_DeletePendingOnFilter ==
    SelectRunning /\ refiltered /\ mode = OperatorPending(Delete("Empty")) /\ line # <<>>

\* the first position after p in the text that holds a non-word char (0: none)
WordEndsBefore(text, p) == FirstFrom(NonAlnumAt(text), p)

\* C25: d w / c w (no qualifier) with the cursor inside a word that another word
\* follows deletes from the cursor through the whitespace before the next word
\* and no char of the next word, also when the next word is a single char at
\* the end of the text.
C25_DwSparesNextWord ==
    (BasicRunning /\ mode.kind = "OperatorPending" /\ mode.op.adj = "Empty"
        /\ cursor >= 0 /\ cursor < ByteLen(line) /\ IsCharBoundary(line, cursor)) =>
        LET p    == CharAt(line, cursor)
            gap  == WordEndsBefore(line, p)
            next == IF gap = 0 THEN 0 ELSE FirstFrom(AlnumAt(line), gap)
            r    == handle_key(CurrentPrompt, Key("Char", "w", "NONE"))
        IN  (IsAlphanumeric(line[p]) /\ next # 0) =>
                /\ r.out = "continue"
                /\ r.st.line = SubSeq(line, 1, p - 1) \o SubSeq(line, next, Len(line))
                /\ r.st.cursor = cursor

\* C26: d i w / c i w with the cursor on any char of a word (first, middle or
\* last) deletes exactly the chars of that word, no char of a neighbouring word
\* and no whitespace, and leaves the cursor where the word started.
C26_InnerWordDeletesThatWord ==
    (BasicRunning /\ mode.kind = "OperatorPending" /\ mode.op.adj = "Inner"
        /\ cursor >= 0 /\ cursor < ByteLen(line) /\ IsCharBoundary(line, cursor)) =>
        LET p     == CharAt(line, cursor)
            gap   == WordEndsBefore(line, p)
            last  == IF gap = 0 THEN Len(line) ELSE gap - 1
            first == LastUpTo(NonAlnumAt(line), p) + 1
            r     == handle_key(CurrentPrompt, Key("Char", "w", "NONE"))
        IN  IsAlphanumeric(line[p]) =>
                /\ r.out = "continue"
                /\ r.st.line = SubSeq(line, 1, first - 1) \o SubSeq(line, last + 1, Len(line))
                /\ r.st.cursor = Offset(line, first)

\* C27: handle_key is total: from a new prompt state no key sequence makes a
\* call panic (an out-of-range string index, an unsigned subtraction underflow).
C27_HandleKeyNeverPanics ==
    call = "basic" => status # "panicked"

\* C28: a prompt returns a value only in response to Enter: no other event from
\* the terminal driver (a non-key event, say) ends the loop with a value.
C28_ValueOnlyOnEnter ==
    (call \in {"basic", "select", "boolean"} /\ status = "returned") => loop_exit = "break"

\* C29: typing n printable chars into a new Insert-mode buffer gives the text of
\* exactly those chars in order, with the cursor after the n-th char, also when
\* some chars take more than one byte; no insertion fails.
C29_TypingAppendsEveryChar ==
    (call = "keys" /\ scenario.line = <<>>) =>
        /\ status = "running"
        /\ mode = Insert
        /\ line = scenario.keys
        /\ cursor = Len(line)

\* what a TodoFile holds, in order: every item's section, text and flag
RECURSIVE Contents(_)
Contents(secs) ==
    IF secs = <<>> THEN <<>>
    ELSE [k \in 1..Len(Head(secs).items) |->
              [section |-> Head(secs).name,
               description |-> Head(secs).items[k].description,
               completed |-> Head(secs).items[k].completed]]
         \o Contents(Tail(secs))

Headings(secs) == [s \in 1..Len(secs) |-> <<secs[s].name, secs[s].level>>]

\* the number of items in the sections before section s
RECURSIVE ItemsBefore(_, _)
ItemsBefore(secs, s) ==
    IF s <= 1 THEN 0 ELSE ItemsBefore(secs, s - 1) + Len(secs[s - 1].items)

NumberedInOrder(secs) ==
    /\ Len(all_items(secs)) = total_items(secs)
    /\ \A g \in 1..Len(all_items(secs)) : all_items(secs)[g].global_index = g
    /\ \A s \in 1..Len(secs) : \A k \in 1..Len(secs[s].items) :
           /\ all_items(secs)[ItemsBefore(secs, s) + k].item = secs[s].items[k]
           /\ all_items(secs)[ItemsBefore(secs, s) + k].section = secs[s]

InRange(secs, i) == 1 <= i /\ i <= total_items(secs)

\* C30: all_items numbers the items 1..total in section order then item order;
\* remove_item(i) with 1 <= i <= total hands back and removes exactly the item numbered
\* i, and set_item_completion(i, b) sets exactly that item's flag, every other item,
\* flag, section and the order staying as they were; with i = 0 or i > total both
\* return an error and leave the sections unchanged.
C30_GlobalIndexAddressesOneItem ==
    call = "todo" =>
        /\ NumberedInOrder(sections)
        /\ scenario.op # "none" =>
               IF InRange(scenario.before, scenario.user_index)
               THEN /\ result.kind = "ok"
                    /\ Headings(sections) = Headings(scenario.before)
                    /\ scenario.op = "remove_item" =>
                           /\ result.v = all_items(scenario.before)[scenario.user_index].item
                           /\ Contents(sections)
                                = WithoutChar(Contents(scenario.before), scenario.user_index)
                    /\ scenario.op = "set_item_completion" =>
                           Contents(sections)
                             = [Contents(scenario.before) EXCEPT
                                   ![scenario.user_index].completed = scenario.completed]
               ELSE result.kind = "err" /\ sections = scenario.before

\* the third item of a file, the first of its second section, has been removed
C30_RemovedFromSecondSection ==
    /\ call = "todo" /\ scenario.op = "remove_item" /\ result.kind = "ok"
    /\ Len(scenario.before) = 2
    /\ Len(scenario.before[1].items) = 2 /\ Len(scenario.before[2].items) = 2
    /\ scenario.user_index = 3
    /\ Len(sections[2].items) = 1
=============================================================================
